---- MODULE Spec2Model ----
(***************************************************************************)
(* Synthetic-dataset generator (synthetic_data_utils/dataset_generator.py). *)
(*                                                                         *)
(* SpecImage models one call of create_image_anno: the whole-image retry   *)
(* loop, the per-object load / augment / placement search, compositing,    *)
(* annotation recording and the final save.                                *)
(* SpecPool models gen_syn_data: the work items it plans, the worker pool  *)
(* that runs create_image_anno for each of them, the interrupt handling    *)
(* and the path lists handed to write_imageset_file.                       *)
(* SpecList models get_list_of_images for one category, SpecOverlap and    *)
(* SpecMask the functions overlap and get_annotation_from_mask, SpecGroups *)
(* the planning loop of gen_syn_data.                                      *)
(***************************************************************************)
EXTENDS Integers, Sequences, FiniteSets

(***************************************************************************)
(* Bounds of the model.  The canvas side, the attempt budget and the pool  *)
(* size are the program's WIDTH / HEIGHT (384), MAX_ATTEMPTS_TO_SYNTHESIZE *)
(* (40) and NUMBER_OF_WORKERS (12), scaled down so that the state space    *)
(* stays finite and small.                                                 *)
(***************************************************************************)
CanvasSide == 3

AttemptBudget == 2

\* output images planned by one run of gen_syn_data
MaxImages == 2

\* length of BLENDING_LIST
MaxStyles == 2

PoolSize == 2

(***************************************************************************)
(* Program constants (synthetic_data_utils/defaults.py).                   *)
(***************************************************************************)
WIDTH == CanvasSide

HEIGHT == CanvasSide

MAX_ATTEMPTS_TO_SYNTHESIZE == AttemptBudget

NUMBER_OF_WORKERS == PoolSize

\* The outer loop of create_image_anno has no counter of its own; the model
\* follows it for one pass more than the attempt budget.
MaxTries == MAX_ATTEMPTS_TO_SYNTHESIZE + 1

\* MIN_SCALE = 0.30 and MAX_SCALE = 0.60, in percent
MIN_SCALE == 30

MAX_SCALE == 60

\* MAX_TRUNCATION_FRACTION = 0.25 = 1 / TruncationDen
TruncationDen == 4

\* MAX_ALLOWED_IOU = 0.5 = IouNum / IouDen
IouNum == 1

IouDen == 2

MIN_WIDTH == 6

MIN_HEIGHT == 6

Min(a, b) == IF a <= b THEN a ELSE b

Max(a, b) == IF a >= b THEN a ELSE b

\* Python's int() of the rational n / d: truncation toward zero
IntTrunc(n, d) == IF n >= 0 THEN n \div d ELSE -((-n) \div d)

(***************************************************************************)
(* overlap(a, b), on Rectangle(xmin, ymin, xmax, ymax).                    *)
(* float(dx*dy) > MAX_ALLOWED_IOU * area is compared on integers as        *)
(* IouDen * dx * dy > IouNum * area.                                       *)
(***************************************************************************)
Rectangle(xmin, ymin, xmax, ymax) ==
    [xmin |-> xmin, ymin |-> ymin, xmax |-> xmax, ymax |-> ymax]

\* A variant of overlap that compares with the area of a only
overlap_FirstOnly(a, b) ==
    LET dx == Min(a.xmax, b.xmax) - Max(a.xmin, b.xmin)
        dy == Min(a.ymax, b.ymax) - Max(a.ymin, b.ymin)
        area1 == (a.xmax - a.xmin) * (a.ymax - a.ymin)
    IN  /\ dx >= 0
        /\ dy >= 0
        /\ IouDen * (dx * dy) > IouNum * area1

overlap(a, b) ==
    LET dx == Min(a.xmax, b.xmax) - Max(a.xmin, b.xmin)
        dy == Min(a.ymax, b.ymax) - Max(a.ymin, b.ymin)
        area1 == (a.xmax - a.xmin) * (a.ymax - a.ymin)
        area2 == (b.xmax - b.xmin) * (b.ymax - b.ymin)
    IN  /\ dx >= 0
        /\ dy >= 0
        /\ \/ IouDen * (dx * dy) > IouNum * area1
           \/ IouDen * (dx * dy) > IouNum * area2

(***************************************************************************)
(* Mask boxes are tuples <<xmin, xmax, ymin, ymax>>, as returned by        *)
(* get_annotation_from_mask_file and get_annotation_from_mask.             *)
(***************************************************************************)
Sentinel == <<-1, -1, -1, -1>>

\* The skip test on the box of the raw mask file (line 407)
RawMaskDegenerate(b) ==
    \/ b[1] = -1
    \/ b[3] = -1
    \/ b[2] - b[1] < MIN_WIDTH
    \/ b[4] - b[3] < MIN_HEIGHT

(***************************************************************************)
(* Object assets.  An asset is an (image file, label) pair of the pool;    *)
(* opens says whether Image.open / cv2.imread succeed on the file, raw is  *)
(* the box get_annotation_from_mask_file returns for it (the sentinel for  *)
(* a missing, corrupt or empty mask).                                      *)
(***************************************************************************)
A1 == [file |-> "a1", label |-> "a", opens |-> TRUE,  raw |-> <<0, 7, 0, 7>>]

B1 == [file |-> "b1", label |-> "b", opens |-> TRUE,  raw |-> <<2, 9, 1, 8>>]

A2 == [file |-> "a2", label |-> "a", opens |-> TRUE,  raw |-> <<0, 6, 0, 6>>]

\* a mask narrower than MIN_WIDTH
B2 == [file |-> "b2", label |-> "b", opens |-> TRUE,  raw |-> <<0, 5, 0, 9>>]

\* a missing, corrupt or empty mask
A3 == [file |-> "a3", label |-> "a", opens |-> TRUE,  raw |-> Sentinel]

\* an image that does not open
B3 == [file |-> "b3", label |-> "b", opens |-> FALSE, raw |-> <<0, 6, 0, 6>>]

\* distractor_files pairs every distractor image with the label None (line 587)
D1 == [file |-> "d1", label |-> "None", opens |-> TRUE, raw |-> <<0, 7, 0, 7>>]

D2 == [file |-> "d2", label |-> "None", opens |-> TRUE, raw |-> Sentinel]

\* The foreground groups and distractor groups create_image_anno is called with
ForegroundLists ==
    { <<A1>>, <<A2>>, <<A1, B1>>, <<B1, A2>>, <<B2, A1>>, <<A1, A3>>, <<B3, A2>>,
      <<A1, A3, B1>> }

DistractorLists == { <<>>, <<D1>>, <<D2>> }

SeqsUpTo(S, lo, hi) == UNION { [1..n -> S] : n \in lo..hi }

VARIABLES
    objects,            \* foreground (image, label) pairs of this output image
    distractor_objects, \* distractors of this output image
    dontocclude,        \* occlusion avoidance flag
    scale_augment,      \* scale augmentation flag
    bg_opens,           \* whether Image.open(bg_file) succeeds
    pc,                 \* position in create_image_anno
    tries,              \* iterations of the outer while True started so far
    attempt,            \* the placement-search counter
    idx,                \* position in all_objects (1-based)
    top,                \* annotation under construction: sequence of entries
    already_syn,        \* canvas boxes accepted so far (dontocclude only)
    backgrounds,        \* instances pasted on the canvases of this attempt
    o_w, o_h,           \* size of the transformed object
    box,                \* box recomputed from the transformed mask (line 440)
    saved_images,       \* what backgrounds[i].save persisted (at pc = "done")
    saved_anno,         \* what was written to anno_file (at pc = "done")
    BLENDING_LIST,      \* the requested blending styles, in order
    orch_pc,            \* position of the orchestrating process
    params_list,        \* work items: (img_file, anno_file) of each params tuple
    img_files,          \* image paths gen_syn_data returns
    anno_files,         \* annotation paths gen_syn_data returns
    item,               \* per work item: position of its create_image_anno call
    fs,                 \* experiment directory: path -> absent / partial / complete
    writes,             \* <<work item, path>> for every file a work item wrote to in this run
    sigint,             \* a manual interrupt was delivered and is not yet handled
    train,              \* lines of train.txt, as <<image path, annotation path>>
    N,                  \* get_list_of_images: images wanted per category
    num,                \* get_list_of_images: images found in the category directory
    img_list,           \* get_list_of_images: the list of the category
    list_pc,            \* get_list_of_images: position in the loop body
    ra, rb,             \* overlap: the two rectangles it is called with
    overlap_ret,        \* overlap: the value returned
    overlap_pc,         \* overlap: called / returned
    mask,               \* get_annotation_from_mask: the mask array, as a sequence of rows
    mask_ret,           \* get_annotation_from_mask: the tuple returned
    mask_pc,            \* get_annotation_from_mask: called / returned
    img_labels,         \* gen_syn_data: the (image, label) pairs not yet assigned
    distractor_files,   \* gen_syn_data: the distractor pool
    groups,             \* gen_syn_data: per planned output image, its idx and objects
    gen_pc              \* gen_syn_data: position in the planning loop

imageVars == <<objects, distractor_objects, dontocclude, scale_augment, bg_opens,
               pc, tries, attempt, idx, top, already_syn, backgrounds,
               o_w, o_h, box, saved_images, saved_anno>>

poolVars == <<BLENDING_LIST, orch_pc, params_list, img_files, anno_files, item,
              fs, writes, sigint, train>>

listVars == <<N, num, img_list, list_pc>>

overlapVars == <<ra, rb, overlap_ret, overlap_pc>>

maskVars == <<mask, mask_ret, mask_pc>>

groupVars == <<img_labels, distractor_files, groups, gen_pc>>

utilVars == <<listVars, overlapVars, maskVars, groupVars>>

vars == <<imageVars, poolVars, utilVars>>

all_objects == objects \o distractor_objects

(***************************************************************************)
(* Sizes after scale augmentation (lines 418-426): scale is uniform in     *)
(* [MIN_SCALE, MAX_SCALE]; the sampling loop only leaves with a size that  *)
(* fits strictly inside the canvas.  Without augmentation the size is the  *)
(* size of the crop (lines 409-411, 417).  Rotation augmentation (lines     *)
(* 427-439) is switched off in this model.                                 *)
(***************************************************************************)
ScalePercents == {MIN_SCALE, MAX_SCALE}

Sizes(raw, w, h) ==
    LET orig_w == raw[2] - raw[1]
        orig_h == raw[4] - raw[3]
    IN  IF scale_augment
        THEN { sz \in { <<IntTrunc(s * orig_w, 100), IntTrunc(s * orig_h, 100)>> :
                        s \in ScalePercents } :
               w - sz[1] > 0 /\ h - sz[2] > 0 /\ sz[1] > 0 /\ sz[2] > 0 }
        ELSE { <<orig_w, orig_h>> }

(***************************************************************************)
(* get_annotation_from_mask on the cropped / resized mask (line 440): the  *)
(* extreme columns and rows holding a non-zero pixel, or the sentinel when *)
(* the mask holds none.  The pixels are not modelled; the mask is one of: *)
(* all zero, non-zero up to its last column and row, non-zero in its first *)
(* pixel only.                                                             *)
(***************************************************************************)
MaskBoxes(ow, oh) ==
    { Sentinel, <<0, ow - 1, 0, oh - 1>>, <<0, 0, 0, 0>> }

\* random.randint(int(-f * o), int(side - o + f * o)), f = MAX_TRUNCATION_FRACTION
OffsetLo(o) == IntTrunc(-o, TruncationDen)

OffsetHi(side, o) == IntTrunc(TruncationDen * (side - o) + o, TruncationDen)

Offsets(side, o) == OffsetLo(o) .. OffsetHi(side, o)

\* rb of line 454 and the list appended at line 465
CanvasBox(x, y, b) == <<x + b[1], x + b[2], y + b[3], y + b[4]>>

\* ra of line 453
PrevRect(prev) == Rectangle(prev[1], prev[3], prev[2], prev[4])

found(x, y) ==
    \A i \in 1..Len(already_syn) :
        ~overlap(PrevRect(already_syn[i]),
                 Rectangle(x + box[1], y + box[3], x + box[2], y + box[4]))

\* The <object> element of lines 524-538
Entry(obj, x, y, b, w, h) ==
    [name |-> obj.label,
     xmin |-> Max(1, x + b[1]),
     xmax |-> Min(w, x + b[2]),
     ymin |-> Max(1, y + b[3]),
     ymax |-> Min(h, y + b[4]),
     difficult |-> 0]

\* A variant of the test of line 522 that takes no object for a distractor
IsDistractor_Never(i) == FALSE

\* Line 522: objects past the foreground list are distractors, never recorded
IsDistractor(i) == i > Len(objects)

\* What paste puts on every style's canvas (lines 466-521)
Instance(i, x, y, b) == [obj |-> i, mask |-> b, at |-> CanvasBox(x, y, b)]

(***************************************************************************)
(* Output paths.  img_file is os.path.join(img_dir, '%i_%s.jpg' % (idx,    *)
(* blur)) and anno_file is os.path.join(anno_dir, '%i.xml' % idx) (lines   *)
(* 610-611).  The directory names are taken not to contain 'none', so the  *)
(* substring test of line 350 and the replace of line 546 only ever see    *)
(* the style token of the file name.                                       *)
(***************************************************************************)
Styles == {"none", "gaussian", "motion"}

BlendingLists ==
    { l \in SeqsUpTo(Styles, 1, MaxStyles) : \A i, j \in DOMAIN l : i # j => l[i] # l[j] }

ImgFile(i, blur) == [dir |-> "images", idx |-> i, name |-> blur]

AnnoFile(i) == [dir |-> "annotations", idx |-> i, name |-> "xml"]

Paths ==
    { ImgFile(i, st) : i \in 1..MaxImages, st \in Styles } \cup
    { AnnoFile(i) : i \in 1..MaxImages }

\* A variant of the test of line 350 that lets every work item through
NoneInFile_Always(f) == TRUE

\* 'none' in img_file (line 350)
NoneInFile(f) == f.name = "none"

\* img_file.replace('none', style) (line 546)
ReplaceNone(f, style) == IF f.name = "none" THEN [f EXCEPT !.name = style] ELSE f

Queued == [pc |-> "queued", k |-> 0]

Running(it) == it.pc \in {"synth", "save", "anno"}

\* A worker that keeps the default SIGINT handler dies of the interrupt
WorkerOnSigint_Default(it) == IF Running(it) THEN [it EXCEPT !.pc = "killed"] ELSE it

\* init_worker: signal.signal(SIGINT, SIG_IGN), the interrupt leaves a worker as it is
WorkerOnSigint(it) == it

\* The state of the variables of gen_syn_data while only create_image_anno is studied
PoolOff ==
    /\ BLENDING_LIST = <<"none">>
    /\ orch_pc = "off"
    /\ params_list = <<>>
    /\ img_files = <<>>
    /\ anno_files = <<>>
    /\ item = <<>>
    /\ fs = [p \in Paths |-> "absent"]
    /\ writes = {}
    /\ sigint = FALSE
    /\ train = <<>>

\* The state of the variables of get_list_of_images while other code is studied
ListOff ==
    /\ N = 1
    /\ num = 0
    /\ img_list = <<>>
    /\ list_pc = "off"

\* The state of the variables of overlap while other code is studied
OverlapOff ==
    /\ ra = Rectangle(0, 0, 0, 0)
    /\ rb = Rectangle(0, 0, 0, 0)
    /\ overlap_ret = FALSE
    /\ overlap_pc = "off"

\* The state of the variables of get_annotation_from_mask while other code is studied
MaskOff ==
    /\ mask = <<>>
    /\ mask_ret = Sentinel
    /\ mask_pc = "off"

\* The state of the planning loop of gen_syn_data while other code is studied
GroupOff ==
    /\ img_labels = <<>>
    /\ distractor_files = <<>>
    /\ groups = <<>>
    /\ gen_pc = "off"

InitImage ==
    /\ objects \in ForegroundLists
    /\ distractor_objects \in DistractorLists
    /\ dontocclude \in BOOLEAN
    /\ scale_augment \in BOOLEAN
    /\ bg_opens \in BOOLEAN
    /\ pc = "loop"
    /\ tries = 0
    /\ attempt = 0
    /\ idx = 1
    /\ top = <<>>
    /\ already_syn = <<>>
    /\ backgrounds = <<>>
    /\ o_w = 0
    /\ o_h = 0
    /\ box = Sentinel
    /\ saved_images = <<>>
    /\ saved_anno = <<>>
    /\ PoolOff
    /\ ListOff /\ OverlapOff /\ MaskOff /\ GroupOff

inputs == <<objects, distractor_objects, dontocclude, scale_augment, bg_opens>>

(***************************************************************************)
(* Lines 359-399: one pass through the head of the outer loop.  A new      *)
(* annotation root is created; a background that does not open sends the   *)
(* loop straight back to its head.                                         *)
(***************************************************************************)
OpenBackground ==
    /\ pc = "loop"
    /\ tries < MaxTries
    /\ tries' = tries + 1
    /\ top' = <<>>
    /\ IF bg_opens
       THEN /\ backgrounds' = <<>>
            /\ already_syn' = <<>>
            /\ idx' = 1
            /\ pc' = "object"
       ELSE /\ pc' = "loop"
            /\ UNCHANGED <<backgrounds, already_syn, idx>>
    /\ UNCHANGED <<inputs, attempt, o_w, o_h, box, saved_images, saved_anno>>
    /\ UNCHANGED <<poolVars, utilVars>>

\* Lines 401-408: an object that does not open or has a degenerate raw mask
SkipObject ==
    /\ pc = "object"
    /\ idx <= Len(all_objects)
    /\ \/ ~all_objects[idx].opens
       \/ RawMaskDegenerate(all_objects[idx].raw)
    /\ idx' = idx + 1
    /\ UNCHANGED <<inputs, pc, tries, attempt, top, already_syn, backgrounds,
                   o_w, o_h, box, saved_images, saved_anno>>
    /\ UNCHANGED <<poolVars, utilVars>>

\* Lines 401-441: load, crop, augment, recompute the box, reset the counter
LoadObject ==
    /\ pc = "object"
    /\ idx <= Len(all_objects)
    /\ all_objects[idx].opens
    /\ ~RawMaskDegenerate(all_objects[idx].raw)
    /\ \E sz \in Sizes(all_objects[idx].raw, WIDTH, HEIGHT) :
         /\ o_w' = sz[1]
         /\ o_h' = sz[2]
         /\ box' \in MaskBoxes(sz[1], sz[2])
    /\ attempt' = 0
    /\ pc' = "search"
    /\ UNCHANGED <<inputs, tries, idx, top, already_syn, backgrounds,
                   saved_images, saved_anno>>
    /\ UNCHANGED <<poolVars, utilVars>>

\* Lines 444-449 when a randint range is empty: ValueError leaves the function
OffsetError ==
    /\ pc = "search"
    /\ \/ Offsets(WIDTH, o_w) = {}
       \/ Offsets(HEIGHT, o_h) = {}
    /\ attempt' = attempt + 1
    /\ pc' = "raised"
    /\ UNCHANGED <<inputs, tries, idx, top, already_syn, backgrounds,
                   o_w, o_h, box, saved_images, saved_anno>>
    /\ UNCHANGED <<poolVars, utilVars>>

\* Lines 442-463: a sample that overlaps an accepted instance, budget not used up
RejectOffset ==
    /\ pc = "search"
    /\ dontocclude
    /\ attempt + 1 # MAX_ATTEMPTS_TO_SYNTHESIZE
    /\ \E x \in Offsets(WIDTH, o_w), y \in Offsets(HEIGHT, o_h) : ~found(x, y)
    /\ attempt' = attempt + 1
    /\ UNCHANGED <<inputs, pc, tries, idx, top, already_syn, backgrounds,
                   o_w, o_h, box, saved_images, saved_anno>>
    /\ UNCHANGED <<poolVars, utilVars>>

(***************************************************************************)
(* Lines 442-538: the sample that ends the search (no occlusion check, or  *)
(* no overlap, or the budget used up), followed by the append to           *)
(* already_syn, the paste on every canvas and, for a foreground object,    *)
(* the annotation entry.                                                   *)
(***************************************************************************)
AcceptOffset ==
    /\ pc = "search"
    /\ \E x \in Offsets(WIDTH, o_w), y \in Offsets(HEIGHT, o_h) :
         /\ \/ ~dontocclude
            \/ found(x, y)
            \/ attempt + 1 = MAX_ATTEMPTS_TO_SYNTHESIZE
         /\ already_syn' = IF dontocclude
                           THEN Append(already_syn, CanvasBox(x, y, box))
                           ELSE already_syn
         /\ backgrounds' = Append(backgrounds, Instance(idx, x, y, box))
         /\ top' = IF IsDistractor(idx)
                   THEN top
                   ELSE Append(top, Entry(all_objects[idx], x, y, box, WIDTH, HEIGHT))
    /\ attempt' = attempt + 1
    /\ idx' = idx + 1
    /\ pc' = "object"
    /\ UNCHANGED <<inputs, tries, o_w, o_h, box, saved_images, saved_anno>>
    /\ UNCHANGED <<poolVars, utilVars>>

\* Lines 539-542: after the last object
EndOfObjects ==
    /\ pc = "object"
    /\ idx > Len(all_objects)
    /\ pc' = IF attempt = MAX_ATTEMPTS_TO_SYNTHESIZE THEN "loop" ELSE "save"
    /\ UNCHANGED <<inputs, tries, attempt, idx, top, already_syn, backgrounds,
                   o_w, o_h, box, saved_images, saved_anno>>
    /\ UNCHANGED <<poolVars, utilVars>>

\* Lines 543-550: every style's canvas is saved, then the annotation is written
Save ==
    /\ pc = "save"
    /\ saved_images' = backgrounds
    /\ saved_anno' = top
    /\ pc' = "done"
    /\ UNCHANGED <<inputs, tries, attempt, idx, top, already_syn, backgrounds,
                   o_w, o_h, box>>
    /\ UNCHANGED <<poolVars, utilVars>>

NextImage ==
    \/ OpenBackground
    \/ SkipObject
    \/ LoadObject
    \/ OffsetError
    \/ RejectOffset
    \/ AcceptOffset
    \/ EndOfObjects
    \/ Save

SpecImage == InitImage /\ [][NextImage]_vars

(***************************************************************************)
(* gen_syn_data and the worker pool.                                       *)
(***************************************************************************)

\* The state of the variables of create_image_anno while the pool is studied
ImageOff ==
    /\ objects = <<>>
    /\ distractor_objects = <<>>
    /\ dontocclude = FALSE
    /\ scale_augment = FALSE
    /\ bg_opens = TRUE
    /\ pc = "off"
    /\ tries = 0
    /\ attempt = 0
    /\ idx = 1
    /\ top = <<>>
    /\ already_syn = <<>>
    /\ backgrounds = <<>>
    /\ o_w = 0
    /\ o_h = 0
    /\ box = Sentinel
    /\ saved_images = <<>>
    /\ saved_anno = <<>>

(***************************************************************************)
(* The experiment directory a run starts from: empty, or holding what an   *)
(* earlier, completed run with the same BLENDING_LIST wrote for the output *)
(* indices 1..n (nothing when the list has no 'none', see line 350).       *)
(***************************************************************************)
LeftBy(n, list) ==
    [p \in Paths |->
        IF /\ p.idx <= n
           /\ \E j \in DOMAIN list : list[j] = "none"
           /\ \/ p.dir = "annotations"
              \/ \E j \in DOMAIN list : list[j] = p.name
        THEN "complete" ELSE "absent"]

InitPool ==
    /\ BLENDING_LIST \in BlendingLists
    /\ orch_pc = "plan"
    /\ params_list = <<>>
    /\ img_files = <<>>
    /\ anno_files = <<>>
    /\ item = <<>>
    /\ fs \in { LeftBy(n, BLENDING_LIST) : n \in 0..MaxImages }
    /\ writes = {}
    /\ sigint = FALSE
    /\ train = <<>>
    /\ ImageOff
    /\ ListOff /\ OverlapOff /\ MaskOff /\ GroupOff

\* Lines 607-615 for n output images: one params tuple per (idx, blur), idx-major
Plan(n) ==
    LET L == Len(BLENDING_LIST)
    IN  [q \in 1..(n * L) |->
            [img_file  |-> ImgFile(((q - 1) \div L) + 1, BLENDING_LIST[((q - 1) % L) + 1]),
             anno_file |-> AnnoFile(((q - 1) \div L) + 1)]]

(***************************************************************************)
(* Lines 590-620: the pool of (image, label) pairs is cut into n groups,   *)
(* idx runs over 1..n and every (idx, blur) gets a work item and an entry  *)
(* in both returned lists; then the pool is created.                       *)
(***************************************************************************)
PlanWork ==
    /\ orch_pc = "plan"
    /\ \E n \in 1..MaxImages :
         /\ params_list' = Plan(n)
         /\ img_files' = [q \in DOMAIN Plan(n) |-> Plan(n)[q].img_file]
         /\ anno_files' = [q \in DOMAIN Plan(n) |-> Plan(n)[q].anno_file]
         /\ item' = [q \in DOMAIN Plan(n) |-> Queued]
    /\ orch_pc' = "map"
    /\ UNCHANGED <<BLENDING_LIST, fs, writes, sigint, train>>
    /\ UNCHANGED <<imageVars, utilVars>>

\* A variant of the test of line 354 that never finds the annotation file
AnnoExists_Never(f) == FALSE

\* os.path.exists(anno_file) (line 354): true for a partially written file too
AnnoExists(f) == fs[f] # "absent"

(***************************************************************************)
(* A free worker takes the next work item and runs create_image_anno up to *)
(* line 357: it returns at once when the style token of img_file is not    *)
(* 'none' or when the annotation file exists.                              *)
(***************************************************************************)
StartItem(i) ==
    /\ orch_pc = "map"
    /\ item[i].pc = "queued"
    /\ \A j \in 1..(i - 1) : item[j].pc # "queued"
    /\ Cardinality({ j \in DOMAIN item : Running(item[j]) }) < NUMBER_OF_WORKERS
    /\ item' = [item EXCEPT ![i].pc =
                  IF ~NoneInFile(params_list[i].img_file) THEN "done"
                  ELSE IF AnnoExists(params_list[i].anno_file) THEN "done"
                  ELSE "synth"]
    /\ UNCHANGED <<BLENDING_LIST, orch_pc, params_list, img_files, anno_files,
                   fs, writes, sigint, train>>
    /\ UNCHANGED <<imageVars, utilVars>>

\* A variant in which the annotation is written right after the synthesis
AfterSynthesis_AnnoFirst == [pc |-> "anno", k |-> 0]

\* Line 543: after the outer loop the canvas of the first style is saved
AfterSynthesis == [pc |-> "save", k |-> 1]

\* Lines 357-542 run to the end: the canvases and the annotation are ready
Synthesize(i) ==
    /\ item[i].pc = "synth"
    /\ item' = [item EXCEPT ![i] = AfterSynthesis]
    /\ UNCHANGED <<BLENDING_LIST, orch_pc, params_list, img_files, anno_files,
                   fs, writes, sigint, train>>
    /\ UNCHANGED <<imageVars, utilVars>>

\* Lines 357-542 raise (an image without alpha band at line 413, an empty
\* randint range at lines 444-449, a failing blend): the call ends there
SynthesisRaises(i) ==
    /\ item[i].pc = "synth"
    /\ item' = [item EXCEPT ![i].pc = "raised"]
    /\ UNCHANGED <<BLENDING_LIST, orch_pc, params_list, img_files, anno_files,
                   fs, writes, sigint, train>>
    /\ UNCHANGED <<imageVars, utilVars>>

\* The file a work item writes next: line 546 for style k, line 549
Target(i) ==
    IF item[i].pc = "save"
    THEN ReplaceNone(params_list[i].img_file, BLENDING_LIST[item[i].k])
    ELSE params_list[i].anno_file

\* Line 546 for style k, then lines 543-544 move to the next style
SaveImage(i) ==
    /\ item[i].pc = "save"
    /\ fs' = [fs EXCEPT ![Target(i)] = "complete"]
    /\ writes' = writes \cup {<<i, Target(i)>>}
    /\ item' = [item EXCEPT ![i] =
                  IF item[i].k = Len(BLENDING_LIST)
                  THEN [pc |-> "anno", k |-> 0]
                  ELSE [pc |-> "save", k |-> item[i].k + 1]]
    /\ UNCHANGED <<BLENDING_LIST, orch_pc, params_list, img_files, anno_files,
                   sigint, train>>
    /\ UNCHANGED <<imageVars, utilVars>>

\* Lines 548-550: the annotation is written and the call returns
WriteAnno(i) ==
    /\ item[i].pc = "anno"
    /\ fs' = [fs EXCEPT ![Target(i)] = "complete"]
    /\ writes' = writes \cup {<<i, Target(i)>>}
    /\ item' = [item EXCEPT ![i].pc = "done"]
    /\ UNCHANGED <<BLENDING_LIST, orch_pc, params_list, img_files, anno_files,
                   sigint, train>>
    /\ UNCHANGED <<imageVars, utilVars>>

AllFinished == \A i \in DOMAIN item : item[i].pc \in {"done", "raised"}

\* Lines 622, 626-627: p.map returns once every work item returned; p.close()
MapReturns ==
    /\ orch_pc = "map"
    /\ ~sigint
    /\ AllFinished
    /\ \A i \in DOMAIN item : item[i].pc # "raised"
    /\ orch_pc' = "join"
    /\ UNCHANGED <<BLENDING_LIST, params_list, img_files, anno_files, item,
                   fs, writes, sigint, train>>
    /\ UNCHANGED <<imageVars, utilVars>>

(***************************************************************************)
(* Line 622: p.map re-raises in the orchestrator the exception of a work   *)
(* item, once every work item has finished.  Only KeyboardInterrupt is     *)
(* caught (line 623), so the exception leaves gen_syn_data and             *)
(* generate_synthetic_dataset (lines 660-662).                             *)
(***************************************************************************)
MapRaises ==
    /\ orch_pc = "map"
    /\ ~sigint
    /\ AllFinished
    /\ \E i \in DOMAIN item : item[i].pc = "raised"
    /\ orch_pc' = "raised"
    /\ UNCHANGED <<BLENDING_LIST, params_list, img_files, anno_files, item,
                   fs, writes, sigint, train>>
    /\ UNCHANGED <<imageVars, utilVars>>

\* A manual interrupt while p.map waits: every process of the group gets SIGINT
SigInt ==
    /\ orch_pc = "map"
    /\ ~sigint
    /\ sigint' = TRUE
    /\ item' = [i \in DOMAIN item |-> WorkerOnSigint(item[i])]
    /\ UNCHANGED <<BLENDING_LIST, orch_pc, params_list, img_files, anno_files,
                   fs, writes, train>>
    /\ UNCHANGED <<imageVars, utilVars>>

(***************************************************************************)
(* Lines 623-625: KeyboardInterrupt caught, p.terminate() stops every      *)
(* worker where it is.  A worker stopped in the middle of a write (cut)    *)
(* leaves that file partially written.                                     *)
(***************************************************************************)
Terminate ==
    /\ orch_pc = "map"
    /\ sigint
    /\ \E cut \in SUBSET { i \in DOMAIN item : item[i].pc \in {"save", "anno"} } :
         /\ fs' = [p \in Paths |->
                     IF \E i \in cut : Target(i) = p THEN "partial" ELSE fs[p]]
         /\ writes' = writes \cup { <<i, Target(i)>> : i \in cut }
    /\ item' = [i \in DOMAIN item |->
                  IF Running(item[i]) THEN [item[i] EXCEPT !.pc = "killed"] ELSE item[i]]
    /\ orch_pc' = "join"
    /\ UNCHANGED <<BLENDING_LIST, params_list, img_files, anno_files,
                   sigint, train>>
    /\ UNCHANGED <<imageVars, utilVars>>

\* Lines 628-629: p.join() and the return of both lists
Join ==
    /\ orch_pc = "join"
    /\ \A i \in DOMAIN item : ~Running(item[i])
    /\ orch_pc' = "returned"
    /\ UNCHANGED <<BLENDING_LIST, params_list, img_files, anno_files, item,
                   fs, writes, sigint, train>>
    /\ UNCHANGED <<imageVars, utilVars>>

\* Line 662 and write_imageset_file (lines 205-207)
WriteImageset ==
    /\ orch_pc = "returned"
    /\ train' = [q \in DOMAIN img_files |-> <<img_files[q], anno_files[q]>>]
    /\ orch_pc' = "written"
    /\ UNCHANGED <<BLENDING_LIST, params_list, img_files, anno_files, item,
                   fs, writes, sigint>>
    /\ UNCHANGED <<imageVars, utilVars>>

NextPool ==
    \/ PlanWork
    \/ \E i \in DOMAIN item : StartItem(i)
    \/ \E i \in DOMAIN item : Synthesize(i)
    \/ \E i \in DOMAIN item : SynthesisRaises(i)
    \/ \E i \in DOMAIN item : SaveImage(i)
    \/ \E i \in DOMAIN item : WriteAnno(i)
    \/ MapReturns
    \/ MapRaises
    \/ SigInt
    \/ Terminate
    \/ Join
    \/ WriteImageset

SpecPool == InitPool /\ [][NextPool]_vars

\* The orchestrating process keeps running: it handles a pending interrupt,
\* joins the pool and returns
FairSpecPool ==
    SpecPool /\ WF_vars(Terminate) /\ WF_vars(Join) /\ WF_vars(WriteImageset)

(***************************************************************************)
(* get_list_of_images, for one category directory (lines 104-112).  The    *)
(* images glob.glob finds are numbered 1..num.                             *)
(***************************************************************************)

\* images wanted per category (the parameter N)
MaxPerCategory == 3

\* images found in a category directory
MaxSourceImages == 5

\* A variant of random.sample that draws with replacement
Sample_WithReplacement(population, k) ==
    { [i \in 1..k |-> population[q[i]]] : q \in [1..k -> DOMAIN population] }

\* random.sample(population, k): k entries taken from distinct positions, in any order
Sample(population, k) ==
    { [i \in 1..k |-> population[q[i]]] :
        q \in { f \in [1..k -> DOMAIN population] :
                  \A i, j \in 1..k : i # j => f[i] # f[j] } }

\* times * list, the repetition of a Python list
Repeat(list, times) ==
    [i \in 1..(times * Len(list)) |-> list[((i - 1) % Len(list)) + 1]]

InitList ==
    /\ N \in 1..MaxPerCategory
    /\ num \in 0..MaxSourceImages
    /\ img_list = [i \in 1..num |-> i]
    /\ list_pc = "glob"
    /\ ImageOff /\ PoolOff /\ OverlapOff /\ MaskOff /\ GroupOff

\* Lines 106-109 with num > 0: the list repeated int(N / num) times, then a
\* sample of the repeated list for the remainder
FillCategory ==
    /\ list_pc = "glob"
    /\ num < N
    /\ num > 0
    /\ LET repeated == Repeat(img_list, N \div num)
       IN  \E extra \in Sample(repeated, N - Len(repeated)) :
             img_list' = repeated \o extra
    /\ list_pc' = "done"
    /\ UNCHANGED <<N, num>>
    /\ UNCHANGED <<imageVars, poolVars, overlapVars, maskVars, groupVars>>

\* Line 107 with num = 0: N / num raises ZeroDivisionError
FillRaises ==
    /\ list_pc = "glob"
    /\ num < N
    /\ num = 0
    /\ list_pc' = "raised"
    /\ UNCHANGED <<N, num, img_list>>
    /\ UNCHANGED <<imageVars, poolVars, overlapVars, maskVars, groupVars>>

\* Lines 110-111: a random subset of size N
CutCategory ==
    /\ list_pc = "glob"
    /\ num > N
    /\ img_list' \in Sample(img_list, N)
    /\ list_pc' = "done"
    /\ UNCHANGED <<N, num>>
    /\ UNCHANGED <<imageVars, poolVars, overlapVars, maskVars, groupVars>>

\* num = N: neither branch, the list is used as it is (line 112)
KeepCategory ==
    /\ list_pc = "glob"
    /\ num = N
    /\ list_pc' = "done"
    /\ UNCHANGED <<N, num, img_list>>
    /\ UNCHANGED <<imageVars, poolVars, overlapVars, maskVars, groupVars>>

NextList ==
    \/ FillCategory
    \/ FillRaises
    \/ CutCategory
    \/ KeepCategory

SpecList == InitList /\ [][NextList]_vars

(***************************************************************************)
(* overlap called on two rectangles (lines 68-87).  The rectangles have    *)
(* xmin <= xmax and ymin <= ymax; their corners are taken from a small     *)
(* grid, to which three 10 x 10 boxes are added.                           *)
(***************************************************************************)

\* largest coordinate of the grid
MaxCoord == 2

GridRectangles ==
    { Rectangle(x1, y1, x2, y2) :
        x1 \in 0..MaxCoord, y1 \in 0..MaxCoord, x2 \in 0..MaxCoord, y2 \in 0..MaxCoord }

BoxAtOrigin == Rectangle(0, 0, 10, 10)

BoxFarAway == Rectangle(20, 20, 30, 30)

BoxAtCorner == Rectangle(9, 9, 19, 19)

Rectangles ==
    { r \in GridRectangles : r.xmin <= r.xmax /\ r.ymin <= r.ymax }
        \cup {BoxAtOrigin, BoxFarAway, BoxAtCorner}

InitOverlap ==
    /\ ra \in Rectangles
    /\ rb \in Rectangles
    /\ overlap_ret = FALSE
    /\ overlap_pc = "call"
    /\ ImageOff /\ PoolOff /\ ListOff /\ MaskOff /\ GroupOff

\* Line 455: overlap(ra, rb) is evaluated
CallOverlap ==
    /\ overlap_pc = "call"
    /\ overlap_ret' = overlap(ra, rb)
    /\ overlap_pc' = "returned"
    /\ UNCHANGED <<ra, rb>>
    /\ UNCHANGED <<imageVars, poolVars, listVars, maskVars, groupVars>>

NextOverlap == CallOverlap

SpecOverlap == InitOverlap /\ [][NextOverlap]_vars

(***************************************************************************)
(* get_annotation_from_mask (lines 177-192).  The mask array is a sequence *)
(* of rows of pixel values; numpy indices start at 0.                      *)
(***************************************************************************)

\* largest number of rows and of columns of a mask
MaxMaskSide == 3

PixelValues == {0, 255}

Masks ==
    UNION { [1..hh -> [1..ww -> PixelValues]] : hh \in 1..MaxMaskSide, ww \in 1..MaxMaskSide }

\* np.any(mask, axis=1): per row, whether it holds a non-zero pixel
AnyAlongRows(m) == [r \in 1..Len(m) |-> \E c \in 1..Len(m[r]) : m[r][c] # 0]

\* np.any(mask, axis=0): per column, whether it holds a non-zero pixel
AnyAlongCols(m) == [c \in 1..Len(m[1]) |-> \E r \in 1..Len(m) : m[r][c] # 0]

\* np.where(v)[0]: the indices of the true entries of v, ascending
Where(v) ==
    LET IsSet(i) == v[i + 1]
    IN  SelectSeq([i \in 1..Len(v) |-> i - 1], IsSet)

\* A variant of get_annotation_from_mask that takes the two axes for each other
get_annotation_from_mask_Swapped(m) ==
    LET rows == Where(AnyAlongCols(m))
        cols == Where(AnyAlongRows(m))
    IN  IF Len(rows) > 0
        THEN <<cols[1], cols[Len(cols)], rows[1], rows[Len(rows)]>>
        ELSE Sentinel

get_annotation_from_mask(m) ==
    LET rows == Where(AnyAlongRows(m))
        cols == Where(AnyAlongCols(m))
    IN  IF Len(rows) > 0
        THEN <<cols[1], cols[Len(cols)], rows[1], rows[Len(rows)]>>
        ELSE Sentinel

InitMask ==
    /\ mask \in Masks
    /\ mask_ret = Sentinel
    /\ mask_pc = "call"
    /\ ImageOff /\ PoolOff /\ ListOff /\ OverlapOff /\ GroupOff

\* Line 440: get_annotation_from_mask(mask) is evaluated
CallMask ==
    /\ mask_pc = "call"
    /\ mask_ret' = get_annotation_from_mask(mask)
    /\ mask_pc' = "returned"
    /\ UNCHANGED mask
    /\ UNCHANGED <<imageVars, poolVars, listVars, overlapVars, groupVars>>

NextMask == CallMask

SpecMask == InitMask /\ [][NextMask]_vars

(***************************************************************************)
(* The planning loop of gen_syn_data (lines 590-615): the shuffled pool of *)
(* (image, label) pairs is consumed from its end, one group of foreground  *)
(* objects per output image.  The pairs are numbered in shuffled order.    *)
(***************************************************************************)

\* (image, label) pairs gen_syn_data is called with
MaxPairs == 10

MIN_NO_OF_OBJECTS == 5

MAX_NO_OF_OBJECTS == 8

MIN_NO_OF_DISTRACTOR_OBJECTS == 1

MAX_NO_OF_DISTRACTOR_OBJECTS == 2

\* distractor_files: empty without add_distractors (line 578) or without matches
DistractorPools == { <<>>, <<D1>>, <<D1, D2>> }

\* idx before the next idx += 1 (lines 590, 607)
LastIdx == IF groups = <<>> THEN 0 ELSE groups[Len(groups)].idx

InitGroups ==
    /\ \E P \in 0..MaxPairs : img_labels = [i \in 1..P |-> i]
    /\ distractor_files \in DistractorPools
    /\ groups = <<>>
    /\ gen_pc = "loop"
    /\ ImageOff /\ PoolOff /\ ListOff /\ OverlapOff /\ MaskOff

\* Lines 594-615, one iteration: n pairs are popped from the end of the
\* pool, distractors are chosen with replacement, idx is incremented
PlanGroup ==
    /\ gen_pc = "loop"
    /\ Len(img_labels) > 0
    /\ \E r \in MIN_NO_OF_OBJECTS..MAX_NO_OF_OBJECTS :
         LET n == Min(r, Len(img_labels))
             L == Len(img_labels)
         IN  \E rd \in MIN_NO_OF_DISTRACTOR_OBJECTS..MAX_NO_OF_DISTRACTOR_OBJECTS :
               \E chosen \in [1..Min(rd, Len(distractor_files)) -> DOMAIN distractor_files] :
                 /\ groups' = Append(groups,
                        [idx |-> LastIdx + 1,
                         objects |-> [i \in 1..n |-> img_labels[L - i + 1]],
                         distractor_objects |->
                             [i \in DOMAIN chosen |-> distractor_files[chosen[i]]]])
                 /\ img_labels' = SubSeq(img_labels, 1, L - n)
    /\ UNCHANGED <<distractor_files, gen_pc>>
    /\ UNCHANGED <<imageVars, poolVars, listVars, overlapVars, maskVars>>

\* Line 594 with an empty pool: the loop is left
PlanDone ==
    /\ gen_pc = "loop"
    /\ Len(img_labels) = 0
    /\ gen_pc' = "planned"
    /\ UNCHANGED <<img_labels, distractor_files, groups>>
    /\ UNCHANGED <<imageVars, poolVars, listVars, overlapVars, maskVars>>

NextGroups ==
    \/ PlanGroup
    \/ PlanDone

SpecGroups == InitGroups /\ [][NextGroups]_vars

(***************************************************************************)
(* Properties of create_image_anno, checked under SpecImage.               *)
(***************************************************************************)

\* C1: the whole-image retry loop is bounded by the attempt budget: with a
\* background that opens, create_image_anno never starts more than
\* MAX_ATTEMPTS_TO_SYNTHESIZE passes of its outer loop (after that many it
\* would emit the image with the last candidate placement).
C1_RetriesBounded == bg_opens => tries <= MAX_ATTEMPTS_TO_SYNTHESIZE

C2_Kept(o) == o.opens /\ ~RawMaskDegenerate(o.raw)

\* C2: the persisted annotation holds exactly one entry per foreground object
\* that was not skipped, in placement order, with that object's label and
\* difficulty 0, and no entry of a distractor or of an abandoned attempt.
C2_AnnotationIsKeptForeground ==
    pc = "done" =>
        LET kept == SelectSeq(objects, C2_Kept)
        IN  /\ Len(saved_anno) = Len(kept)
            /\ \A i \in DOMAIN saved_anno :
                 /\ saved_anno[i].name = kept[i].label
                 /\ saved_anno[i].difficult = 0

\* C2 witness: an image saved after a discarded attempt, with a skipped
\* foreground object, a recorded one and a pasted distractor.
C2_Witness ==
    /\ pc = "done"
    /\ tries >= 2
    /\ Len(saved_anno) >= 1
    /\ Len(saved_anno) < Len(objects)
    /\ Len(saved_images) > Len(saved_anno)

\* C4: every bounding box written to an annotation lies within the canvas:
\* xmin and xmax are in [1, w], ymin and ymax are in [1, h].
C4_BoxesInCanvas ==
    pc = "done" =>
        \A i \in DOMAIN saved_anno :
            /\ saved_anno[i].xmin \in 1..WIDTH
            /\ saved_anno[i].xmax \in 1..WIDTH
            /\ saved_anno[i].ymin \in 1..HEIGHT
            /\ saved_anno[i].ymax \in 1..HEIGHT

C5_Degenerate(b) ==
    \/ b = Sentinel
    \/ b[2] - b[1] < MIN_WIDTH
    \/ b[4] - b[3] < MIN_HEIGHT

\* C5: no object whose recomputed mask box is the sentinel, or narrower or
\* shorter than MIN_WIDTH / MIN_HEIGHT, is composited or recorded in an
\* image that is persisted.
C5_NoDegenerateMaskPlaced ==
    pc = "done" =>
        \A i \in DOMAIN saved_images : ~C5_Degenerate(saved_images[i].mask)

C6_Intersection(a, b) ==
    LET dx == Min(a[2], b[2]) - Max(a[1], b[1])
        dy == Min(a[4], b[4]) - Max(a[3], b[3])
    IN  IF dx >= 0 /\ dy >= 0 THEN dx * dy ELSE 0

C6_Area(a) == (a[2] - a[1]) * (a[4] - a[3])

\* C6: with dontocclude, no two instances of a persisted image have canvas
\* boxes whose intersection exceeds MAX_ALLOWED_IOU times the area of
\* either box.
C6_NoOcclusionPersisted ==
    (dontocclude /\ pc = "done") =>
        \A i, j \in DOMAIN saved_images :
            i # j =>
                /\ IouDen * C6_Intersection(saved_images[i].at, saved_images[j].at)
                       <= IouNum * C6_Area(saved_images[i].at)
                /\ IouDen * C6_Intersection(saved_images[i].at, saved_images[j].at)
                       <= IouNum * C6_Area(saved_images[j].at)

\* Some placement search of the current pass ended without an offset that
\* avoids the instances accepted before it: with dontocclude an instance is
\* accepted on top of an earlier one only when its search used up the budget.
SearchFailedInPass ==
    /\ dontocclude
    /\ \E j \in DOMAIN backgrounds : \E i \in 1..(j - 1) :
         overlap(PrevRect(backgrounds[i].at), PrevRect(backgrounds[j].at))

\* C16: with dontocclude, a pass in which the placement search of any
\* object, at whatever position of the placement order, used up the budget
\* without finding a non-overlapping offset is marked failed: it never gets
\* to the save step, its canvases and annotation are not persisted.
C16_FailedSearchNotPersisted ==
    pc \in {"save", "done"} => ~SearchFailedInPass

\* C17: a pass is discarded and restarted only if some placement search in
\* it failed to find an acceptable offset; a pass in which every search
\* found one is finalized.
C17_DiscardOnlyAfterFailedSearch ==
    (pc = "loop" /\ bg_opens /\ tries > 0) => SearchFailedInPass

\* C18: a background that cannot be opened does not make create_image_anno
\* retry forever: the retrying stops once the attempt budget is used up.
C18_BackgroundRetriesBounded ==
    ~bg_opens => tries <= MAX_ATTEMPTS_TO_SYNTHESIZE

(***************************************************************************)
(* Properties of gen_syn_data, checked under SpecPool / FairSpecPool.      *)
(***************************************************************************)

\* C3: for any BLENDING_LIST, once all work items have completed (no
\* interrupt, no exception), the image file of every planned (idx, style)
\* and the annotation file of every planned idx have been saved.
C3_OneFilePerStyle ==
    (orch_pc \in {"returned", "written"} /\ ~sigint) =>
        \A q \in DOMAIN img_files :
            /\ fs[img_files[q]] = "complete"
            /\ fs[anno_files[q]] = "complete"

\* C7: an exception raised inside one work item's create_image_anno call
\* never aborts the batch: gen_syn_data is never left by that exception.
C7_FailureDoesNotAbort == orch_pc # "raised"

\* C8: no two distinct work items of a run write the same image or
\* annotation path.
C8_DisjointWrites ==
    \A w1, w2 \in writes : w1[2] = w2[2] => w1[1] = w2[1]

\* C8 witness: two distinct work items run at the same time and both have
\* written files.
C8_Witness ==
    \E w1, w2 \in writes :
        /\ w1[1] # w2[1]
        /\ Running(item[w1[1]])
        /\ Running(item[w2[1]])

\* C9: a manual interrupt that reaches the orchestrator while work is
\* dispatched is handled by stopping every running worker at once, without
\* starting any queued work item, after which no work item moves any more;
\* a worker is stopped only by the orchestrator's terminate call, never by
\* the interrupt itself; and gen_syn_data still returns.
C9_InterruptTerminatesWorkers ==
    /\ [][ /\ (orch_pc = "map" /\ sigint /\ orch_pc' # "map") =>
                /\ orch_pc' = "join"
                /\ \A i \in DOMAIN item :
                     /\ ~Running(item'[i])
                     /\ item[i].pc = "queued" => item'[i].pc = "queued"
           /\ (sigint /\ sigint' /\ orch_pc # "map") => item' = item
           /\ \A i \in (DOMAIN item) \cap (DOMAIN item') :
                (item[i].pc # "killed" /\ item'[i].pc = "killed") =>
                    (orch_pc = "map" /\ sigint /\ orch_pc' = "join")
         ]_vars
    /\ ((orch_pc = "map" /\ sigint) ~> (orch_pc = "returned"))

\* C9 witness: gen_syn_data has returned after an interrupt that killed a
\* running work item and left another one queued.
C9_Witness ==
    /\ orch_pc = "returned"
    /\ sigint
    /\ \E i \in DOMAIN item : item[i].pc = "killed"
    /\ \E i \in DOMAIN item : item[i].pc = "queued"

\* C10: the lines of train.txt are produced outputs: with 'none' among the
\* requested styles, every listed image path and its annotation path is a
\* file that was generated, also when the run was aborted by an interrupt.
C10_ListedFilesExist ==
    (orch_pc = "written" /\ \E j \in DOMAIN BLENDING_LIST : BLENDING_LIST[j] = "none") =>
        \A q \in DOMAIN train :
            /\ fs[train[q][1]] = "complete"
            /\ fs[train[q][2]] = "complete"

\* C11: a create_image_anno call for an index whose annotation file already
\* exists returns without writing or overwriting any file, and no image or
\* annotation file of an index is written to while the annotation file of
\* that index exists, so the outputs of a completed run stay as they are.
C11_ExistingOutputsUntouched ==
    [][ /\ \A i \in (DOMAIN item) \cap (DOMAIN item') :
             (/\ item[i].pc = "queued"
              /\ item'[i].pc # "queued"
              /\ fs[params_list[i].anno_file] # "absent")
             => (item'[i].pc = "done" /\ fs' = fs /\ writes' = writes)
        /\ \A w \in writes' \ writes : fs[AnnoFile(w[2].idx)] = "absent"
        /\ \A p \in Paths :
             fs[AnnoFile(p.idx)] # "absent" => fs'[p] = fs[p]
      ]_vars

\* C11 witness: a run over a directory that holds the outputs of index 1 has
\* returned; the work item of index 1 found its annotation and wrote
\* nothing, the work item of index 2 wrote its files.
C11_Witness ==
    /\ orch_pc = "returned"
    /\ writes # {}
    /\ \E i \in DOMAIN item :
         /\ item[i].pc = "done"
         /\ NoneInFile(params_list[i].img_file)
         /\ fs[params_list[i].anno_file] = "complete"
         /\ \A w \in writes : w[1] # i

\* C20: the annotation file is a completion marker: in every state, also
\* after the workers were terminated at arbitrary points, an annotation
\* file that exists (even partially written) implies that the image file
\* of every requested style of its index has been completely saved.
C20_AnnotationMarksCompletion ==
    \A p \in Paths :
        (p.dir = "annotations" /\ fs[p] # "absent") =>
            \A j \in DOMAIN BLENDING_LIST :
                fs[ImgFile(p.idx, BLENDING_LIST[j])] = "complete"

\* C20 witness: after an interrupt one worker was stopped while writing its
\* annotation and another one while saving an image.
C20_Witness ==
    /\ orch_pc = "returned"
    /\ sigint
    /\ Len(BLENDING_LIST) = MaxStyles
    /\ \E p \in Paths : p.dir = "annotations" /\ fs[p] = "partial"
    /\ \E p \in Paths : p.dir = "images" /\ fs[p] = "partial"

(***************************************************************************)
(* Properties of get_list_of_images, checked under SpecList.               *)
(***************************************************************************)

\* C12: for every category with 0 <= num < N source images, the resampled
\* list is produced, has exactly N entries and holds every original image
\* at least once.
C12_FilledToN ==
    (num < N /\ list_pc # "glob") =>
        /\ list_pc = "done"
        /\ Len(img_list) = N
        /\ \A k \in 1..num : \E i \in DOMAIN img_list : img_list[i] = k

\* C13: for every category with more than N source images, the resampled
\* list has exactly N entries, all of them original images of the category,
\* and no image twice.
C13_SubsetOfN ==
    (num > N /\ list_pc = "done") =>
        /\ Len(img_list) = N
        /\ \A i \in DOMAIN img_list : img_list[i] \in 1..num
        /\ \A i, j \in DOMAIN img_list : i # j => img_list[i] # img_list[j]

\* C13 witness: three images were drawn from a larger category, in an order
\* that is not the order of the directory listing.
C13_Witness ==
    /\ list_pc = "done"
    /\ num > N
    /\ N = 3
    /\ img_list[1] > img_list[2]
    /\ img_list[3] = 1

(***************************************************************************)
(* Properties of overlap, checked under SpecOverlap.                       *)
(***************************************************************************)

\* Area of the intersection of two rectangles, and area of a rectangle
C14_Intersection(a, b) ==
    Max(0, Min(a.xmax, b.xmax) - Max(a.xmin, b.xmin))
        * Max(0, Min(a.ymax, b.ymax) - Max(a.ymin, b.ymin))

C14_Area(a) == (a.xmax - a.xmin) * (a.ymax - a.ymin)

C14_Disjoint(a, b) ==
    \/ a.xmax < b.xmin
    \/ b.xmax < a.xmin
    \/ a.ymax < b.ymin
    \/ b.ymax < a.ymin

\* The part of C14 that does not depend on how identical boxes are treated
C14_Common ==
    /\ overlap_ret <=>
          \/ IouDen * C14_Intersection(ra, rb) > IouNum * C14_Area(ra)
          \/ IouDen * C14_Intersection(ra, rb) > IouNum * C14_Area(rb)
    /\ C14_Disjoint(ra, rb) => ~overlap_ret
    /\ (ra = BoxAtOrigin /\ rb = BoxAtCorner) => ~overlap_ret
    /\ overlap_ret = overlap(rb, ra)

C15_NonZero ==
    { rc \in (0..(Len(mask) - 1)) \X (0..(Len(mask[1]) - 1)) :
        mask[rc[1] + 1][rc[2] + 1] # 0 }

\* C15: get_annotation_from_mask returns the sentinel for a mask without a
\* non-zero pixel, and otherwise (xmin, xmax, ymin, ymax) = the smallest and
\* largest column and the smallest and largest row holding a non-zero
\* pixel; for a single non-zero pixel at (r, c) that is (c, c, r, r).
C15_BoxOfNonZeroPixels ==
    mask_pc = "returned" =>
        /\ C15_NonZero = {} => mask_ret = Sentinel
        /\ C15_NonZero # {} =>
              /\ \E rc \in C15_NonZero : rc[2] = mask_ret[1]
              /\ \E rc \in C15_NonZero : rc[2] = mask_ret[2]
              /\ \E rc \in C15_NonZero : rc[1] = mask_ret[3]
              /\ \E rc \in C15_NonZero : rc[1] = mask_ret[4]
              /\ \A rc \in C15_NonZero :
                   /\ mask_ret[1] <= rc[2] /\ rc[2] <= mask_ret[2]
                   /\ mask_ret[3] <= rc[1] /\ rc[1] <= mask_ret[4]
        /\ \A rc \in C15_NonZero :
              C15_NonZero = {rc} => mask_ret = <<rc[2], rc[2], rc[1], rc[1]>>

\* C15 witness: the box of a mask whose non-zero pixels span three columns
\* of its second row only.
C15_Witness ==
    /\ mask_pc = "returned"
    /\ mask_ret = <<0, 2, 1, 1>>
    /\ Len(mask) = 2

(***************************************************************************)
(* Properties of the planning loop of gen_syn_data, checked under          *)
(* SpecGroups.                                                             *)
(***************************************************************************)

\* Number of pairs assigned to the first k groups
RECURSIVE C19_Assigned(_)
C19_Assigned(k) == IF k = 0 THEN 0 ELSE C19_Assigned(k - 1) + Len(groups[k].objects)

\* C19: when planning ends, every pair of the pool is in exactly one group,
\* every group, the last one included, has between MIN_NO_OF_OBJECTS and
\* MAX_NO_OF_OBJECTS pairs, and the groups carry the indices 1..K.
C19_GroupsPartitionPool ==
    gen_pc = "planned" =>
        /\ \A k \in 1..C19_Assigned(Len(groups)) :
             Cardinality({ gi \in (DOMAIN groups) \X (1..MAX_NO_OF_OBJECTS) :
                             /\ gi[2] <= Len(groups[gi[1]].objects)
                             /\ groups[gi[1]].objects[gi[2]] = k }) = 1
        /\ \A g \in DOMAIN groups :
             /\ Len(groups[g].objects) >= MIN_NO_OF_OBJECTS
             /\ Len(groups[g].objects) <= MAX_NO_OF_OBJECTS
             /\ groups[g].idx = g

====
